---- MODULE Spec2Model ----
(***************************************************************************)
(* Emby integration for Home Assistant: the API client (api.py), the       *)
(* polling coordinator (sensor.py) and the views that read its snapshot.   *)
(*                                                                         *)
(* The specifications of this module:                                      *)
(*   SpecRequest  one call of EmbyAPIClient._request                       *)
(*   SpecFetch    one call of EmbyAPIClient.get_dashboard_overview, the    *)
(*                nine sub-fetches completing in any order                 *)
(*   SpecFetchLive  the same under the per-request timeout                 *)
(*   Spec         the entry's life: setup, refresh cycles, views           *)
(*   SpecSession  the views of one device read one session                 *)
(*   SpecOptions  the options flows add and remove monitored devices       *)
(***************************************************************************)
EXTENDS Integers, Sequences, FiniteSets, TLC

VARIABLES
    \* ---- one _request call (SpecRequest)
    rq_pc,                \* "idle" | "sent" | "done"
    rq_endpoint,          \* the endpoint path of the call
    rq_resp,              \* what the server / transport did
    rq_out,               \* what _request returned or raised
    \* ---- one get_dashboard_overview call (SpecFetch, and each cycle of Spec)
    f_pc,                 \* "idle" | "gathering" | "returned"
    server,               \* what the server does to the requests of this call, but for the odd ones
    results,              \* results[0..8] of asyncio.gather, Pending until the task ends
    ret,                  \* the structure get_dashboard_overview returned
    warnings,             \* positions logged by "Request %d failed"
    \* ---- the config entry, its coordinator and its views (Spec)
    entry_state,          \* "not_loaded" | "setup" | "setup_retry" | "loaded" | "failed_unload"
    monitored_devices,    \* entry.options["monitored_devices"]
    hass_data,            \* TRUE when hass.data[DOMAIN] holds the entry's coordinator and client
    pc,                   \* the refresh cycle: "Idle" | "Fetching" | "Success" | "Failed"
    data,                 \* coordinator.data
    last_update_success,  \* coordinator.last_update_success
    last_exception,       \* coordinator.last_exception
    scheduled,            \* TRUE when the next periodic refresh is armed
    views,                \* the view classes with an entity subscribed to the coordinator
    notified,             \* per view class, the update callbacks received in the current cycle
    player,               \* the fields of the EmbyMediaPlayer entity
    flows,                \* the options flows of the entry: step shown, _devices, errors
    \* ---- one session read through one device's views (SpecSession)
    session,              \* the session the server reports
    device_filter,        \* the device id the views were created with
    reading               \* what the views computed from the session

rqvars == <<rq_pc, rq_endpoint, rq_resp, rq_out>>
fvars == <<f_pc, server, results, ret, warnings>>
cvars == <<entry_state, monitored_devices, hass_data, pc, data, last_update_success,
           last_exception, scheduled, views, notified, player, flows>>
svars == <<session, device_filter, reading>>
vars == <<rq_pc, rq_endpoint, rq_resp, rq_out, f_pc, server, results, ret, warnings,
          entry_state, monitored_devices, hass_data, pc, data, last_update_success,
          last_exception, scheduled, views, notified, player, flows,
          session, device_filter, reading>>

----------------------------------------------------------------------------
(* Bounds *)

\* generations of server documents that can be told apart
MaxVer == 2
\* sub-fetches of one composite fetch that may end differently from the rest
MaxOdd == 1

----------------------------------------------------------------------------
(* const.py *)

API_ENDPOINT_SYSTEM_INFO == "/System/Info"
API_ENDPOINT_SYSTEM_INFO_PUBLIC == "/System/Info/Public"
API_ENDPOINT_SYSTEM_ENDPOINT == "/System/Endpoint"
API_ENDPOINT_ITEMS_COUNTS == "/Items/Counts"
API_ENDPOINT_LIBRARY_FOLDERS == "/Library/MediaFolders"
API_ENDPOINT_SESSIONS == "/Sessions"
API_ENDPOINT_USERS == "/Users"
API_ENDPOINT_ACTIVITY_LOG == "/System/ActivityLog/Entries"
API_ENDPOINT_SCHEDULED_TASKS == "/ScheduledTasks"
API_ENDPOINT_DEVICES == "/Devices"

ERROR_AUTH == "Authentication failed"
ERROR_CONNECT == "Connection failed"
ERROR_TIMEOUT == "Request timeout"
ERROR_UNKNOWN == "Unknown error"

\* the ten get_* methods of the client, by the endpoint each requests
Endpoints ==
    { API_ENDPOINT_SYSTEM_INFO, API_ENDPOINT_SYSTEM_INFO_PUBLIC,
      API_ENDPOINT_SYSTEM_ENDPOINT, API_ENDPOINT_ITEMS_COUNTS,
      API_ENDPOINT_LIBRARY_FOLDERS, API_ENDPOINT_SESSIONS, API_ENDPOINT_USERS,
      API_ENDPOINT_ACTIVITY_LOG, API_ENDPOINT_SCHEDULED_TASKS,
      API_ENDPOINT_DEVICES }

----------------------------------------------------------------------------
(* Values: a JSON document, a text body, None, {} and [] *)

\* Python's None
None == [shape |-> "null", ep |-> "", ver |-> 0]
\* the literal {}
EmptyMapping == [shape |-> "mapping", ep |-> "", ver |-> 0]
\* the literal []
EmptySequence == [shape |-> "sequence", ep |-> "", ver |-> 0]

\* the shape of the document each endpoint serves (the Returns: of each get_*)
ShapeOf(endpoint) ==
    IF endpoint \in { API_ENDPOINT_SESSIONS, API_ENDPOINT_USERS,
                      API_ENDPOINT_SCHEDULED_TASKS }
    THEN "sequence"
    ELSE "mapping"

\* the document endpoint serves in server generation v
Doc(endpoint, v) == [shape |-> ShapeOf(endpoint), ep |-> endpoint, ver |-> v]

----------------------------------------------------------------------------
(* Exceptions *)

\* class membership, as isinstance sees it
IsInstance(exc, cls) ==
    CASE cls = "Exception" -> TRUE
      [] cls = "asyncio.TimeoutError" ->
            exc \in { "asyncio.TimeoutError", "aiohttp.ServerTimeoutError" }
      [] cls = "aiohttp.ClientError" ->
            exc \in { "aiohttp.ClientConnectorError", "aiohttp.ClientResponseError",
                      "aiohttp.ServerTimeoutError" }
      [] cls = "EmbyAPIError" ->
            exc \in { "EmbyAPIError", "EmbyAuthError", "EmbyConnectionError",
                      "EmbyTimeoutError" }
      [] cls = "EmbyAuthError" -> exc = "EmbyAuthError"
      [] cls = "EmbyConnectionError" -> exc = "EmbyConnectionError"
      [] cls = "EmbyTimeoutError" -> exc = "EmbyTimeoutError"
      [] OTHER -> exc = cls

Return(v) == [kind |-> "return", val |-> v, exc |-> "", msg |-> "", cause |-> ""]
Raise(e, m, c) == [kind |-> "raise", val |-> None, exc |-> e, msg |-> m, cause |-> c]

----------------------------------------------------------------------------
(* What the server and the transport can do to one request *)

Statuses == { 200, 401, 403, 404, 500 }
ContentTypes == { "application/json", "text/html" }
\* exceptions the session raises instead of, or while reading, a response
TransportErrors ==
    { "asyncio.TimeoutError", "aiohttp.ClientConnectorError",
      "aiohttp.ServerTimeoutError", "ValueError" }

Responded(s, c, v) == [ev |-> "response", status |-> s, content_type |-> c, exc |-> "", ver |-> v]
Failed(e) == [ev |-> "raise", status |-> 0, content_type |-> "", exc |-> e, ver |-> 0]

\* no response yet
NoResponse == [ev |-> "none", status |-> 0, content_type |-> "", exc |-> "", ver |-> 0]

Responses ==
    { Responded(s, c, v) : s \in Statuses, c \in ContentTypes, v \in 0..MaxVer }
        \cup { Failed(e) : e \in TransportErrors }

----------------------------------------------------------------------------
(* EmbyAPIClient._request *)

\* the body of the try without response.raise_for_status()
RequestBody_unchecked(endpoint, resp) ==
    IF resp.ev = "raise" THEN Raise(resp.exc, "", "")
    ELSE IF resp.status = 401 THEN Raise("EmbyAuthError", ERROR_AUTH, "")
    ELSE IF resp.status = 404 THEN Return(None)
    ELSE IF resp.content_type = "application/json"
         THEN Return(Doc(endpoint, resp.ver))
    ELSE Return([shape |-> "text", ep |-> endpoint, ver |-> resp.ver])

\* the body of the try: what the with-blocks return or raise
RequestBody(endpoint, resp) ==
    IF resp.ev = "raise" THEN Raise(resp.exc, "", "")
    ELSE IF resp.status = 401 THEN Raise("EmbyAuthError", ERROR_AUTH, "")
    ELSE IF resp.status = 404 THEN Return(None)
    ELSE IF resp.status >= 400 THEN Raise("aiohttp.ClientResponseError", "", "")
    ELSE IF resp.content_type = "application/json"
         THEN Return(Doc(endpoint, resp.ver))
    ELSE Return([shape |-> "text", ep |-> endpoint, ver |-> resp.ver])

\* the except clauses, in the order they are written
_request(endpoint, resp) ==
    LET r == RequestBody(endpoint, resp) IN
    IF r.kind = "return" THEN r
    ELSE IF IsInstance(r.exc, "asyncio.TimeoutError")
         THEN Raise("EmbyTimeoutError", ERROR_TIMEOUT, r.exc)
    ELSE IF IsInstance(r.exc, "aiohttp.ClientError")
         THEN Raise("EmbyConnectionError", ERROR_CONNECT, r.exc)
    ELSE IF IsInstance(r.exc, "EmbyAuthError") THEN r
    ELSE Raise("EmbyAPIError", ERROR_UNKNOWN, r.exc)

----------------------------------------------------------------------------
(* EmbyAPIClient.test_connection *)

\* a Python bool, as a value
PyBool(b) == [shape |-> "bool", ep |-> "", ver |-> IF b THEN 1 ELSE 0]

\* "ServerName" in info: a key of a mapping, a substring of a text body; the
\* documents of generation 0 are those of a server that does not name itself
HasServerName(info) ==
    /\ info.shape \in { "mapping", "text" }
    /\ info.ep # ""
    /\ info.ver >= 1

\* test_connection without its try/except
test_connection_bare(resp) ==
    LET info == _request(API_ENDPOINT_SYSTEM_INFO_PUBLIC, resp) IN
    IF info.kind = "raise" THEN info
    ELSE Return(PyBool(info.val # None /\ HasServerName(info.val)))

\* test_connection, given what the request meets
test_connection(resp) ==
    LET info == _request(API_ENDPOINT_SYSTEM_INFO_PUBLIC, resp) IN
    IF info.kind = "raise" THEN Return(PyBool(FALSE))
    ELSE Return(PyBool(info.val # None /\ HasServerName(info.val)))

----------------------------------------------------------------------------
(* EmbyAPIClient.get_dashboard_overview *)

\* positions of the nine coroutines in the asyncio.gather call
Positions == 0..8

\* the endpoint the coroutine at each position requests
EndpointAt(i) ==
    CASE i = 0 -> API_ENDPOINT_SYSTEM_INFO
      [] i = 1 -> API_ENDPOINT_SYSTEM_ENDPOINT
      [] i = 2 -> API_ENDPOINT_ITEMS_COUNTS
      [] i = 3 -> API_ENDPOINT_LIBRARY_FOLDERS
      [] i = 4 -> API_ENDPOINT_SESSIONS
      [] i = 5 -> API_ENDPOINT_USERS
      [] i = 6 -> API_ENDPOINT_ACTIVITY_LOG
      [] i = 7 -> API_ENDPOINT_SCHEDULED_TASKS
      [] i = 8 -> API_ENDPOINT_DEVICES

\* a task of the gather that has not ended
Pending == [kind |-> "pending", val |-> None, exc |-> "", msg |-> "", cause |-> ""]

\* the gather without return_exceptions=True
return_exceptions_off == FALSE

\* the keyword argument of the asyncio.gather call
return_exceptions == TRUE

\* a check of the exact class in place of isinstance(result, Exception)
IsException_exact(r) == r.kind = "raise" /\ r.exc = "Exception"

\* isinstance(result, Exception) on an entry of results
IsException(r) == r.kind = "raise" /\ IsInstance(r.exc, "Exception")

\* await asyncio.gather(...) once every task has ended: the list of results,
\* or the exception of a task when exceptions are not returned
gather(res) ==
    IF ~return_exceptions /\ (\E i \in Positions : res[i].kind = "raise")
    THEN res[CHOOSE i \in Positions : res[i].kind = "raise"]
    ELSE Return(res)

\* {} as the value after "else" on every line
Fallback_mapping(i) == EmptyMapping

\* the value after "else" on the line of each position
Fallback(i) ==
    CASE i = 0 -> EmptyMapping
      [] i = 1 -> EmptyMapping
      [] i = 2 -> EmptyMapping
      [] i = 3 -> EmptyMapping
      [] i = 4 -> EmptySequence
      [] i = 5 -> EmptySequence
      [] i = 6 -> EmptyMapping
      [] i = 7 -> EmptySequence
      [] i = 8 -> EmptyMapping

\* results taken from the other end: results[8 - i] on the line of position i
Degrade_reversed(res, i) ==
    IF ~IsException(res[8 - i]) THEN res[8 - i].val ELSE Fallback(i)

\* results[i] if not isinstance(results[i], Exception) else <fallback>
Degrade(res, i) == IF ~IsException(res[i]) THEN res[i].val ELSE Fallback(i)

\* the dict with the key of a failed sub-fetch left out
Overview_omit(res) ==
    LET name(i) ==
            CASE i = 0 -> "system_info" [] i = 1 -> "endpoint_info"
              [] i = 2 -> "items_counts" [] i = 3 -> "library_folders"
              [] i = 4 -> "sessions" [] i = 5 -> "users" [] i = 6 -> "activity_log"
              [] i = 7 -> "scheduled_tasks" [] i = 8 -> "devices"
        kept == { i \in Positions : ~IsException(res[i]) }
    IN  [ k \in { name(i) : i \in kept } |->
            res[CHOOSE i \in kept : name(i) = k].val ]

\* the dict with the sessions and users results under each other's key
Overview_swapped(res) ==
    [ system_info     |-> Degrade(res, 0),
      endpoint_info   |-> Degrade(res, 1),
      items_counts    |-> Degrade(res, 2),
      library_folders |-> Degrade(res, 3),
      sessions        |-> Degrade(res, 5),
      users           |-> Degrade(res, 4),
      activity_log    |-> Degrade(res, 6),
      scheduled_tasks |-> Degrade(res, 7),
      devices         |-> Degrade(res, 8) ]

\* the dict built by the return statement
Overview(res) ==
    [ system_info     |-> Degrade(res, 0),
      endpoint_info   |-> Degrade(res, 1),
      items_counts    |-> Degrade(res, 2),
      library_folders |-> Degrade(res, 3),
      sessions        |-> Degrade(res, 4),
      users           |-> Degrade(res, 5),
      activity_log    |-> Degrade(res, 6),
      scheduled_tasks |-> Degrade(res, 7),
      devices         |-> Degrade(res, 8) ]

\* get_dashboard_overview once the nine tasks have ended as in res
get_dashboard_overview(res) ==
    IF gather(res).kind = "raise" THEN gather(res) ELSE Return(Overview(res))

\* the positions the "Log any errors" loop warns about, in order
RECURSIVE LoggedFrom(_, _)
LoggedFrom(res, i) ==
    IF i > 8 THEN <<>>
    ELSE (IF IsException(res[i]) THEN <<i>> ELSE <<>>) \o LoggedFrom(res, i + 1)

\* the loop with a break after the first warning
LogErrors_break(res) ==
    IF LoggedFrom(res, 0) = <<>> THEN <<>> ELSE <<Head(LoggedFrom(res, 0))>>

\* the loop over enumerate(results)
LogErrors(res) == LoggedFrom(res, 0)

\* what each sub-fetch of a composite fetch can meet: a document, not found,
\* unauthorized, a timeout, a refused connection, an unexpected error
FetchResponses(v) ==
    { Responded(200, "application/json", v), Responded(404, "text/html", 0),
      Responded(401, "text/html", 0), Failed("asyncio.TimeoutError"),
      Failed("aiohttp.ClientConnectorError"), Failed("ValueError") }

\* how a sub-fetch ended: with a value, not found, or the exception raised
OutcomeClass(r) ==
    IF r.kind = "raise" THEN r.exc
    ELSE IF r.val = None THEN "not found"
    ELSE "value"

\* the sub-fetches that met something else than what the server does by default
OddOnes(res, srv) ==
    { j \in Positions : res[j] # Pending /\ res[j] # _request(EndpointAt(j), srv) }

----------------------------------------------------------------------------
(* The state between calls *)

\* no outcome yet
NoOutcome == [kind |-> "none", val |-> None, exc |-> "", msg |-> "", cause |-> ""]

FetchIdle ==
    /\ f_pc = "idle"
    /\ server = NoResponse
    /\ results = [i \in Positions |-> Pending]
    /\ ret = None
    /\ warnings = <<>>

RequestIdle ==
    /\ rq_pc = "idle"
    /\ rq_endpoint = ""
    /\ rq_resp = NoResponse
    /\ rq_out = NoOutcome

----------------------------------------------------------------------------
(* Sessions and the monitored device *)

\* a key a dict does not have
Absent == "<absent>"

\* dict.get(key, default) on a field read from a dict
Get(field, default) == IF field = Absent THEN default ELSE field

\* InternalDeviceId is a number in the document, or not there
NoId == -1

\* str() of a small number
Str(n) ==
    CASE n = 0 -> "0" [] n = 1 -> "1" [] n = 2 -> "2" [] n = 3 -> "3" [] n = 4 -> "4"
      [] n = 5 -> "5" [] n = 6 -> "6" [] n = 7 -> "7" [] n = 8 -> "8" [] n = 9 -> "9"

\* str(session.get("InternalDeviceId", ""))
InternalIdStr(s) ==
    IF s.InternalDeviceId = NoId THEN "" ELSE Str(s.InternalDeviceId)

\* PositionTicks or RunTimeTicks are numbers in the document, or not there
NoTicks == -1

\* dict.get(key, default) on a tick count
GetTicks(field, default) == IF field = NoTicks THEN default ELSE field

\* the sessions the server reports in generation v of its documents
ServerSessions(v) ==
    CASE v % 3 = 1 ->
            << [DeviceId |-> "tv-1", InternalDeviceId |-> 7, UserName |-> "alice",
                DeviceName |-> "Living Room", Client |-> "Infuse",
                NowPlayingItem |-> TRUE, Name |-> "Movie A", IsPaused |-> FALSE,
                PositionTicks |-> 150000000, RunTimeTicks |-> 600000000] >>
      [] v % 3 = 2 ->
            << [DeviceId |-> "phone-2", InternalDeviceId |-> 8, UserName |-> "bob",
                DeviceName |-> "Phone", Client |-> "Emby Web",
                NowPlayingItem |-> FALSE, Name |-> Absent, IsPaused |-> FALSE,
                PositionTicks |-> NoTicks, RunTimeTicks |-> NoTicks],
               [DeviceId |-> "tv-1", InternalDeviceId |-> 7, UserName |-> "alice",
                DeviceName |-> "Living Room", Client |-> "Infuse",
                NowPlayingItem |-> FALSE, Name |-> Absent, IsPaused |-> FALSE,
                PositionTicks |-> NoTicks, RunTimeTicks |-> NoTicks],
               [DeviceId |-> "tv-1", InternalDeviceId |-> 7, UserName |-> "dave",
                DeviceName |-> "Living Room", Client |-> "Emby Theater",
                NowPlayingItem |-> TRUE, Name |-> "Movie C", IsPaused |-> TRUE,
                PositionTicks |-> 10000000, RunTimeTicks |-> 600000000] >>
      [] v % 3 = 0 ->
            << [DeviceId |-> "phone-2", InternalDeviceId |-> 8, UserName |-> "bob",
                DeviceName |-> "Phone", Client |-> "Emby Web",
                NowPlayingItem |-> TRUE, Name |-> "Movie B", IsPaused |-> TRUE,
                PositionTicks |-> 25000000, RunTimeTicks |-> 0],
               [DeviceId |-> "tv-1", InternalDeviceId |-> NoId, UserName |-> "carol",
                DeviceName |-> Absent, Client |-> "Emby Theater",
                NowPlayingItem |-> TRUE, Name |-> Absent, IsPaused |-> FALSE,
                PositionTicks |-> 290000000, RunTimeTicks |-> 1000000000] >>

\* the entries of a sessions section that can be iterated
SessionsIn(val) ==
    IF val.shape = "sequence" /\ val.ep = API_ENDPOINT_SESSIONS
    THEN ServerSessions(val.ver)
    ELSE <<>>

\* entry.options["monitored_devices"] with one device
OneDevice == << [device_id |-> "tv-1", device_name |-> "TV", user_name |-> "alice"] >>

\* entry.options["monitored_devices"] with a device that reports "all" as its id
AllDevice == << [device_id |-> "all", device_name |-> "Hall", user_name |-> "erin"] >>

\* the lists of monitored devices an entry can have
DeviceLists == { <<>>, OneDevice, AllDevice }

\* no session reported
NoSession ==
    [DeviceId |-> Absent, InternalDeviceId |-> NoId, UserName |-> Absent,
     DeviceName |-> Absent, Client |-> Absent, NowPlayingItem |-> FALSE,
     Name |-> Absent, IsPaused |-> FALSE, PositionTicks |-> NoTicks, RunTimeTicks |-> NoTicks]

\* nothing read yet
NoReading ==
    [read |-> {}, include |-> FALSE, player |-> FALSE, info |-> FALSE,
     percent |-> 0, position |-> 0, duration |-> 0, remaining |-> 0, text |-> ""]

SessionIdle ==
    /\ session = NoSession
    /\ device_filter = Absent
    /\ reading = NoReading

\* tick counts a session can carry: 0 s, 0.5 s, 1 s, 2.5 s, 15 s, 29 s, 60 s,
\* 100 s
Ticks ==
    { 0, 5000000, 10000000, 25000000, 150000000, 290000000, 600000000, 1000000000 }

\* the sessions a server can report: a position lies within a known runtime
SessionsReported ==
    { s \in [DeviceId : { "tv-1", "phone-2", Absent }, InternalDeviceId : { 7, NoId },
              UserName : { "alice" }, DeviceName : { "Living Room" }, Client : { "Infuse" },
              NowPlayingItem : BOOLEAN, Name : { "Movie A" }, IsPaused : { FALSE },
              PositionTicks : Ticks \cup { NoTicks }, RunTimeTicks : Ticks \cup { NoTicks }] :
        s.RunTimeTicks > 0 => s.PositionTicks <= s.RunTimeTicks }

\* the device ids a view can be created with: entry.data.get("device_id") when
\* there is none, the empty string, "all", and the ids of devices
Filters == { Absent, "", "all", "tv-1", "phone-2", "7" }

\* _should_include_session without the "all" shortcut
_should_include_session_noall(filter, s) ==
    IF filter = Absent \/ filter = "" THEN TRUE
    ELSE s.DeviceId = filter \/ InternalIdStr(s) = filter

\* _should_include_session of the sensors, self._device_filter being filter
_should_include_session(filter, s) ==
    IF (filter = Absent \/ filter = "") \/ filter = "all" THEN TRUE
    ELSE s.DeviceId = filter \/ InternalIdStr(s) = filter

----------------------------------------------------------------------------
(* Ticks, seconds and percentages *)

RECURSIVE GCD(_, _)
\* the greatest common divisor
GCD(a, b) == IF b = 0 THEN a ELSE GCD(b, a % b)

\* int((position_ticks / runtime_ticks) * 100) for 0 <= position_ticks and
\* 0 < runtime_ticks: the quotient and the product are binary64 numbers, each
\* rounded to nearest; the product is the exact percentage but for the
\* quotients 0.29, 0.57 and 0.58, whose products are just below 29, 57 and 58
IntPercent(position_ticks, runtime_ticks) ==
    LET g == GCD(position_ticks, runtime_ticks)
        a == position_ticks \div g
        b == runtime_ticks \div g
    IN  IF 100 * a \in { 29 * b, 57 * b, 58 * b }
        THEN ((100 * a) \div b) - 1
        ELSE (100 * a) \div b

\* int(ticks / 10000000) with the quotient rounded to nearest
TicksToSeconds_round(ticks) ==
    IF ticks >= 0 THEN (ticks + 5000000) \div 10000000
    ELSE -((5000000 - ticks) \div 10000000)

\* int(ticks / 10000000): the binary64 quotient, cut towards zero
TicksToSeconds(ticks) ==
    IF ticks >= 0 THEN ticks \div 10000000 ELSE -((-ticks) \div 10000000)

\* None where a number of seconds is expected
NoSeconds == -1

RECURSIVE ProgressFrom(_, _, _)
\* EmbyProgressPercentSensor.native_value: the loop over the sessions from k
ProgressFrom(sessions, filter, k) ==
    IF k > Len(sessions) THEN 0
    ELSE LET s == sessions[k] IN
         IF /\ _should_include_session(filter, s)
            /\ s.NowPlayingItem
            /\ GetTicks(s.RunTimeTicks, 0) > 0
         THEN IntPercent(GetTicks(s.PositionTicks, 0), GetTicks(s.RunTimeTicks, 0))
         ELSE ProgressFrom(sessions, filter, k + 1)

RECURSIVE RemainingFrom(_, _, _)
\* EmbyPlaybackRemainingSensor.extra_state_attributes: remaining_seconds of
\* the first session that has them, NoSeconds for the empty dict
RemainingFrom(sessions, filter, k) ==
    IF k > Len(sessions) THEN NoSeconds
    ELSE LET s == sessions[k] IN
         IF /\ _should_include_session(filter, s)
            /\ s.NowPlayingItem
            /\ GetTicks(s.RunTimeTicks, 0) > 0
            /\ GetTicks(s.PositionTicks, 0) > 0
         THEN TicksToSeconds(GetTicks(s.RunTimeTicks, 0) - GetTicks(s.PositionTicks, 0))
         ELSE RemainingFrom(sessions, filter, k + 1)

\* EmbyMediaPlayer.media_duration, _session_data being <<>> or <<s>>
media_duration(session_data) ==
    IF session_data = <<>> THEN NoSeconds
    ELSE IF ~session_data[1].NowPlayingItem THEN NoSeconds
    ELSE IF session_data[1].RunTimeTicks \in { NoTicks, 0 } THEN NoSeconds
    ELSE TicksToSeconds(session_data[1].RunTimeTicks)

\* EmbyMediaPlayer.media_position, _session_data being <<>> or <<s>>
media_position(session_data) ==
    IF session_data = <<>> THEN NoSeconds
    ELSE IF session_data[1].PositionTicks \in { NoTicks, 0 } THEN NoSeconds
    ELSE TicksToSeconds(session_data[1].PositionTicks)

\* the test of device_info with the InternalDeviceId comparison left out
DeviceInfoMatch_deviceonly(s, device_id) == s.DeviceId = device_id

\* the test device_info makes on each session to find the device's client
DeviceInfoMatch(s, device_id) ==
    s.DeviceId = device_id \/ InternalIdStr(s) = device_id

----------------------------------------------------------------------------
(* EmbyMediaPlayer *)

\* the entity before a device is monitored
NoPlayer ==
    [device_id |-> "", _session_data |-> <<>>, _cached_user |-> "",
     _cached_device |-> "", _cached_client |-> "", error |-> ""]

\* the sessions of res that match device_id, in order
RECURSIVE MatchingFrom(_, _, _)
MatchingFrom(sessions, device_id, k) ==
    IF k > Len(sessions) THEN <<>>
    ELSE (IF sessions[k].DeviceId = device_id \/ InternalIdStr(sessions[k]) = device_id
          THEN <<sessions[k]>> ELSE <<>>) \o MatchingFrom(sessions, device_id, k + 1)

\* _update_session_data with the cached client reset when no session matches
_update_session_data_reset(p, d) ==
    IF d = None THEN [p EXCEPT !._session_data = <<>>]
    ELSE IF d.sessions = None
         THEN [p EXCEPT !.error = "TypeError"]
    ELSE LET m == MatchingFrom(SessionsIn(d.sessions), p.device_id, 1) IN
         IF m = <<>> THEN [p EXCEPT !._session_data = <<>>, !._cached_client = "Unknown"]
         ELSE [p EXCEPT !._session_data = <<m[1]>>,
                        !._cached_user = Get(m[1].UserName, p._cached_user),
                        !._cached_device = Get(m[1].DeviceName, p._cached_device),
                        !._cached_client = Get(m[1].Client, p._cached_client)]

\* _update_session_data: _session_data is <<>> for None, <<session>> otherwise
_update_session_data(p, d) ==
    IF d = None THEN [p EXCEPT !._session_data = <<>>]
    ELSE IF d.sessions = None
         \* for session in None
         THEN [p EXCEPT !.error = "TypeError"]
    ELSE LET m == MatchingFrom(SessionsIn(d.sessions), p.device_id, 1) IN
         IF m = <<>> THEN [p EXCEPT !._session_data = <<>>]
         ELSE [p EXCEPT !._session_data = <<m[1]>>,
                        !._cached_user = Get(m[1].UserName, p._cached_user),
                        !._cached_device = Get(m[1].DeviceName, p._cached_device),
                        !._cached_client = Get(m[1].Client, p._cached_client)]

\* EmbyMediaPlayer.__init__
NewPlayer(device, d) ==
    _update_session_data(
        [device_id |-> device.device_id, _session_data |-> <<>>,
         _cached_user |-> device.user_name, _cached_device |-> device.device_name,
         _cached_client |-> "Unknown", error |-> ""], d)

\* EmbyMediaPlayer._handle_coordinator_update
_handle_coordinator_update(p, d) == _update_session_data([p EXCEPT !.error = ""], d)

----------------------------------------------------------------------------
(* What the views read from the snapshot *)

\* the literals of the views, transliterated: "no playback" (sensor.py 678),
\* "idle", "paused" and "playing" (sensor.py 840-842)
NO_PLAYBACK == "wu bofang"
PLAYBACK_IDLE == "kongxian"
PLAYBACK_PAUSED == "zanting"
PLAYBACK_PLAYING == "bofang zhong"

\* a property that returned val, or raised exc
Read(val) == [exc |-> "", val |-> val]
ReadRaised(exc, val) == [exc |-> exc, val |-> val]

\* section.get(key, default) raises on None and on a text body
HasGet(section) == section.shape \in { "mapping", "sequence" }

\* EmbyMovieCountSensor.native_value: the MovieCount of the document of
\* generation v is v
EmbyMovieCountSensor_native_value(d) ==
    IF ~HasGet(d.items_counts) THEN ReadRaised("AttributeError", 0)
    ELSE IF d.items_counts.ep = "" THEN Read(0)
    ELSE Read(d.items_counts.ver)

\* EmbyOnlineBinarySensor.is_on
EmbyOnlineBinarySensor_is_on(d) ==
    IF ~HasGet(d.system_info) THEN ReadRaised("AttributeError", FALSE)
    ELSE Read(HasServerName(d.system_info))

RECURSIVE NowPlayingFrom(_, _, _)
\* EmbyNowPlayingSensor.native_value: the loop over the sessions from k
NowPlayingFrom(sessions, filter, k) ==
    IF k > Len(sessions) THEN NO_PLAYBACK
    ELSE IF _should_include_session(filter, sessions[k]) /\ sessions[k].NowPlayingItem
         THEN Get(sessions[k].Name, "Unknown")
    ELSE NowPlayingFrom(sessions, filter, k + 1)

\* EmbyNowPlayingSensor.native_value
EmbyNowPlayingSensor_native_value(d, filter) ==
    IF d.sessions.shape # "sequence" THEN ReadRaised("TypeError", "")
    ELSE Read(NowPlayingFrom(SessionsIn(d.sessions), filter, 1))

RECURSIVE PlaybackStateFrom(_, _, _)
\* EmbyPlaybackStateSensor.native_value: the loop over the sessions from k
PlaybackStateFrom(sessions, filter, k) ==
    IF k > Len(sessions) THEN PLAYBACK_IDLE
    ELSE IF _should_include_session(filter, sessions[k]) /\ sessions[k].NowPlayingItem
         THEN (IF sessions[k].IsPaused THEN PLAYBACK_PAUSED ELSE PLAYBACK_PLAYING)
    ELSE PlaybackStateFrom(sessions, filter, k + 1)

\* EmbyPlaybackStateSensor.native_value
EmbyPlaybackStateSensor_native_value(d, filter) ==
    IF d.sessions.shape # "sequence" THEN ReadRaised("TypeError", "")
    ELSE Read(PlaybackStateFrom(SessionsIn(d.sessions), filter, 1))

\* EmbyProgressPercentSensor.native_value
EmbyProgressPercentSensor_native_value(d, filter) ==
    IF d.sessions.shape # "sequence" THEN ReadRaised("TypeError", 0)
    ELSE Read(ProgressFrom(SessionsIn(d.sessions), filter, 1))

\* f"{n:02d}" for n below 100
TwoDigits(n) == Str(n \div 10) \o Str(n % 10)

\* the remaining time written with the hours whatever they are
FormatRemaining_hours(remaining_seconds) ==
    LET hours == remaining_seconds \div 3600
        minutes == (remaining_seconds % 3600) \div 60
        seconds == remaining_seconds % 60
    IN  TwoDigits(hours) \o ":" \o TwoDigits(minutes) \o ":" \o TwoDigits(seconds)

\* the remaining time as the sensor writes it
FormatRemaining(remaining_seconds) ==
    LET hours == remaining_seconds \div 3600
        minutes == (remaining_seconds % 3600) \div 60
        seconds == remaining_seconds % 60
    IN  IF hours > 0
        THEN TwoDigits(hours) \o ":" \o TwoDigits(minutes) \o ":" \o TwoDigits(seconds)
        ELSE TwoDigits(minutes) \o ":" \o TwoDigits(seconds)

\* EmbyPlaybackRemainingSensor.native_value: the loop over the sessions
RemainingTextFrom(sessions, filter) ==
    LET remaining_seconds == RemainingFrom(sessions, filter, 1) IN
    IF remaining_seconds = NoSeconds THEN "00:00"
    ELSE FormatRemaining(remaining_seconds)

\* EmbyPlaybackRemainingSensor.native_value
EmbyPlaybackRemainingSensor_native_value(d, filter) ==
    IF d.sessions.shape # "sequence" THEN ReadRaised("TypeError", "")
    ELSE Read(RemainingTextFrom(SessionsIn(d.sessions), filter))

\* EmbyMediaPlayer.name (the device's own names are the first cached ones)
name(p) ==
    LET user == IF p._session_data # <<>>
                THEN Get(p._session_data[1].UserName, p._cached_user)
                ELSE p._cached_user
        device == IF p._session_data # <<>>
                  THEN Get(p._session_data[1].DeviceName, p._cached_device)
                  ELSE p._cached_device
    IN  "Emby " \o user \o " - " \o device

\* state without the look at NowPlayingItem
state_session(p) ==
    IF p._session_data = <<>> THEN "idle"
    ELSE IF p._session_data[1].IsPaused THEN "paused"
    ELSE "playing"

\* EmbyMediaPlayer.state
state(p) ==
    IF p._session_data = <<>> THEN "idle"
    ELSE IF ~p._session_data[1].NowPlayingItem THEN "idle"
    ELSE IF p._session_data[1].IsPaused THEN "paused"
    ELSE "playing"

----------------------------------------------------------------------------
(* Views *)

\* the classes that define available
ViewClasses ==
    { "EmbySensorBase", "EmbyDeviceSensorBase", "EmbyBinarySensorBase",
      "EmbyOnlineBinarySensor", "EmbyButtonBase", "EmbyMediaPlayer" }

\* available with the success flag left out of the base classes
available_flagless(cls, success, d) ==
    CASE cls = "EmbyOnlineBinarySensor" -> TRUE
      [] cls = "EmbyMediaPlayer" -> success
      [] OTHER -> d # None

\* the available property of each class
available(cls, success, d) ==
    CASE cls = "EmbyOnlineBinarySensor" -> TRUE
      [] cls = "EmbyMediaPlayer" -> success
      [] OTHER -> success /\ d # None

\* the entities the four platform setups add: sensors, binary sensors, no
\* button, and a device sensor and a media player per monitored device
PlatformViews(devices) ==
    { "EmbySensorBase", "EmbyBinarySensorBase", "EmbyOnlineBinarySensor" }
        \cup (IF devices # <<>> THEN { "EmbyDeviceSensorBase", "EmbyMediaPlayer" } ELSE {})

----------------------------------------------------------------------------
(* EmbyOptionsFlowHandler *)

PhoneDevice == [device_id |-> "phone-2", device_name |-> "Phone", user_name |-> "bob"]
TabletDevice == [device_id |-> "tablet-3", device_name |-> "Tablet", user_name |-> "carol"]

\* the Items of /Devices, as the flow processes them (app_name, used for the
\* display name only, is left out)
DevicesReported == << OneDevice[1], PhoneDevice, TabletDevice >>

\* the options flows that can be open at a time
Flows == { "A", "B" }

\* user_input is None, or has no device_id
NoInput == ""

\* no flow: the handler before __init__, and after async_create_entry
NoFlow ==
    [step |-> "closed", _devices |-> <<>>, errors |-> "", options |-> {},
     user_input |-> NoInput]

\* the device ids of a list of devices
DeviceIds(devices) == { devices[i].device_id : i \in 1..Len(devices) }

\* async_step_device_management without user input: the form with the menu
DeviceManagementForm(f) ==
    [f EXCEPT !.step = "device_management", !.errors = "", !.options = {}]

\* the second half of async_step_add_device: the devices are fetched, those
\* monitored are skipped, and the form is shown with errs, or the menu if
\* there is nothing to add and nothing to report
AddDeviceForm(f, monitored, errs, resp) ==
    LET devices_data == _request(API_ENDPOINT_DEVICES, resp)
        \* an exception of get_devices, or of None.get("Items", [])
        fetched == devices_data.kind = "return" /\ devices_data.val # None
        NotMonitored(d) == d.device_id \notin DeviceIds(monitored)
        devs == IF fetched THEN SelectSeq(DevicesReported, NotMonitored) ELSE <<>>
        errors == IF fetched THEN errs ELSE "cannot_connect"
    IN  IF devs = <<>> /\ errors = ""
        THEN DeviceManagementForm([f EXCEPT !._devices = devs])
        ELSE [f EXCEPT !.step = "add_device", !._devices = devs, !.errors = errors,
                       !.options = DeviceIds(devs)]

\* async_step_add_device: the flow and the stored list after the call
async_step_add_device(f, monitored, user_input, resp) ==
    LET Selected(d) == d.device_id = user_input
        selected_device == SelectSeq(f._devices, Selected)
        g == [f EXCEPT !.user_input = user_input]
    IN  IF user_input # NoInput /\ selected_device # <<>>
        THEN IF user_input \in DeviceIds(monitored)
             THEN [flow |-> AddDeviceForm(g, monitored, "device_already_monitored", resp),
                   monitored |-> monitored]
             ELSE [flow |-> DeviceManagementForm(g),
                   monitored |-> Append(monitored, selected_device[1])]
        ELSE [flow |-> AddDeviceForm(g, monitored, "", resp), monitored |-> monitored]

\* async_step_remove_device: the flow and the stored list after the call
async_step_remove_device(f, monitored, user_input) ==
    LET Others(d) == d.device_id # user_input
        g == [f EXCEPT !.user_input = user_input]
    IN  IF monitored = <<>>
        THEN [flow |-> DeviceManagementForm(g), monitored |-> monitored]
        ELSE IF user_input # NoInput
        THEN [flow |-> DeviceManagementForm(g), monitored |-> SelectSeq(monitored, Others)]
        ELSE [flow |-> [g EXCEPT !.step = "remove_device", !.errors = "",
                                 !.options = DeviceIds(monitored)],
              monitored |-> monitored]

----------------------------------------------------------------------------
(* EmbyDataUpdateCoordinator *)

\* what can escape get_dashboard_overview when the call itself breaks
Escaping == { "EmbyAPIError", "RuntimeError" }

\* _async_update_data with "return None" in the except clause
_async_update_data_swallow(fetched) ==
    IF fetched.kind = "return" THEN fetched
    ELSE IF IsInstance(fetched.exc, "EmbyAPIError") THEN Return(None)
    ELSE fetched

\* _async_update_data with a bare "except Exception: return None" added
_async_update_data_swallow_rest(fetched) ==
    IF fetched.kind = "return" THEN fetched
    ELSE IF IsInstance(fetched.exc, "EmbyAPIError")
         THEN Raise("UpdateFailed", "Error fetching Emby data", fetched.exc)
    ELSE Return(None)

\* _async_update_data without its "return data"
_async_update_data_noreturn(fetched) ==
    IF fetched.kind = "return" THEN Return(None)
    ELSE IF IsInstance(fetched.exc, "EmbyAPIError")
         THEN Raise("UpdateFailed", "Error fetching Emby data", fetched.exc)
    ELSE fetched

\* _async_update_data, given what get_dashboard_overview returned or raised
_async_update_data(fetched) ==
    IF fetched.kind = "return" THEN fetched
    ELSE IF IsInstance(fetched.exc, "EmbyAPIError")
         THEN Raise("UpdateFailed", "Error fetching Emby data", fetched.exc)
    ELSE fetched

\* the nine responses of a composite fetch: what the server does by default,
\* and alt for the positions of odd
ResponsesOf(srv, odd, alt) == [i \in Positions |-> IF i \in odd THEN alt ELSE srv]

\* the positions that meet something else in a cycle: none, or any one
OddInCycle == { {} } \cup { { i } : i \in Positions }

\* the responses the composite fetch of a cycle can meet, the documents of
\* one cycle being of one generation
CycleResponses ==
    UNION { { ResponsesOf(srv, odd, alt) :
                srv \in FetchResponses(v), odd \in OddInCycle, alt \in FetchResponses(v) } :
            v \in 1..MaxVer }

EntryIdle ==
    /\ entry_state = "not_loaded"
    /\ monitored_devices = <<>>
    /\ hass_data = FALSE
    /\ pc = "Idle"
    /\ data = None
    /\ last_update_success = TRUE
    /\ last_exception = ""
    /\ scheduled = FALSE
    /\ views = {}
    /\ notified = [c \in ViewClasses |-> 0]
    /\ player = NoPlayer
    /\ flows = [f \in Flows |-> NoFlow]

\* a refresh starts: the coordinator calls _async_update_data
StartRefresh ==
    /\ pc' = "Fetching"
    /\ notified' = [c \in ViewClasses |-> 0]
    /\ f_pc' = "gathering"
    /\ server' = NoResponse
    /\ results' = [i \in Positions |-> Pending]
    /\ ret' = None
    /\ warnings' = <<>>

\* async_setup_entry up to the first refresh: a new client and coordinator
SetupEntry ==
    /\ entry_state \in { "not_loaded", "setup_retry" }
    /\ entry_state' = "setup"
    /\ data' = None
    /\ last_update_success' = TRUE
    /\ last_exception' = ""
    /\ StartRefresh
    /\ UNCHANGED <<monitored_devices, hass_data, scheduled, views, player>>
    /\ UNCHANGED flows
    /\ UNCHANGED rqvars
    /\ UNCHANGED svars

\* the update interval has passed
Tick ==
    /\ entry_state = "loaded"
    /\ pc = "Idle"
    /\ scheduled
    /\ scheduled' = FALSE
    /\ StartRefresh
    /\ UNCHANGED <<entry_state, monitored_devices, hass_data, data, last_update_success,
                   last_exception, views, player>>
    /\ UNCHANGED flows
    /\ UNCHANGED rqvars
    /\ UNCHANGED svars

\* the coordinator takes what _async_update_data returned or raised
Refreshed(updated) ==
    IF updated.kind = "return"
    THEN /\ pc' = "Success"
         /\ data' = updated.val
         /\ last_update_success' = TRUE
         /\ last_exception' = ""
    ELSE /\ pc' = "Failed"
         /\ data' = data
         /\ last_update_success' = FALSE
         /\ last_exception' = updated.exc

\* every sub-fetch has ended and get_dashboard_overview is over
FetchEnded(resps) ==
    /\ pc = "Fetching"
    /\ results' = [i \in Positions |-> _request(EndpointAt(i), resps[i])]
    /\ LET fetched == get_dashboard_overview(results') IN
        /\ f_pc' = IF fetched.kind = "return" THEN "returned" ELSE "raised"
        /\ ret' = IF fetched.kind = "return" THEN fetched.val ELSE None
        /\ warnings' = IF fetched.kind = "return" THEN LogErrors(results') ELSE <<>>
        /\ Refreshed(_async_update_data(fetched))
    /\ UNCHANGED server
    /\ UNCHANGED <<entry_state, monitored_devices, hass_data, scheduled, views, notified,
                   player>>
    /\ UNCHANGED flows
    /\ UNCHANGED rqvars
    /\ UNCHANGED svars

\* the call of get_dashboard_overview breaks before any sub-fetch has ended
FetchRaised(exc) ==
    /\ pc = "Fetching"
    /\ f_pc' = "raised"
    /\ Refreshed(_async_update_data(Raise(exc, "", "")))
    /\ UNCHANGED <<server, results, ret, warnings>>
    /\ UNCHANGED <<entry_state, monitored_devices, hass_data, scheduled, views, notified,
                   player>>
    /\ UNCHANGED flows
    /\ UNCHANGED rqvars
    /\ UNCHANGED svars

\* async_setup_entry after a first refresh that succeeded: the pair is stored,
\* the platforms create their entities, which subscribe
SetupFinish ==
    /\ entry_state = "setup"
    /\ pc = "Success"
    /\ pc' = "Idle"
    /\ entry_state' = "loaded"
    /\ hass_data' = TRUE
    /\ views' = PlatformViews(monitored_devices)
    /\ player' = IF monitored_devices # <<>>
                 THEN NewPlayer(monitored_devices[1], data)
                 ELSE NoPlayer
    /\ scheduled' = TRUE
    /\ UNCHANGED <<monitored_devices, data, last_update_success, last_exception, notified>>
    /\ UNCHANGED fvars
    /\ UNCHANGED flows
    /\ UNCHANGED rqvars
    /\ UNCHANGED svars

\* async_setup_entry going on after a first refresh that failed
SetupAbort_continue ==
    /\ entry_state = "setup"
    /\ pc = "Failed"
    /\ pc' = "Idle"
    /\ entry_state' = "loaded"
    /\ hass_data' = TRUE
    /\ views' = PlatformViews(monitored_devices)
    /\ scheduled' = TRUE
    /\ UNCHANGED <<monitored_devices, data, last_update_success, last_exception, notified,
                   player>>
    /\ UNCHANGED fvars
    /\ UNCHANGED flows
    /\ UNCHANGED rqvars
    /\ UNCHANGED svars

\* async_setup_entry after a first refresh that failed: the setup is given up,
\* to be tried again later
SetupAbort ==
    /\ entry_state = "setup"
    /\ pc = "Failed"
    /\ pc' = "Idle"
    /\ entry_state' = "setup_retry"
    /\ UNCHANGED <<monitored_devices, hass_data, data, last_update_success, last_exception,
                   scheduled, views, notified, player>>
    /\ UNCHANGED fvars
    /\ UNCHANGED flows
    /\ UNCHANGED rqvars
    /\ UNCHANGED svars

\* the end of a periodic cycle: the next one is armed and every subscribed
\* view gets its update callback
Notify ==
    /\ entry_state = "loaded"
    /\ pc \in { "Success", "Failed" }
    /\ pc' = "Idle"
    /\ scheduled' = (views # {})
    /\ notified' = [c \in ViewClasses |-> IF c \in views THEN notified[c] + 1 ELSE notified[c]]
    /\ player' = IF "EmbyMediaPlayer" \in views
                 THEN _handle_coordinator_update(player, data)
                 ELSE player
    /\ UNCHANGED <<entry_state, monitored_devices, hass_data, data, last_update_success,
                   last_exception, views>>
    /\ UNCHANGED fvars
    /\ UNCHANGED flows
    /\ UNCHANGED rqvars
    /\ UNCHANGED svars

\* async_unload_entry that pops the pair whatever the platforms answered
async_unload_entry_always(registered, unload_ok) == FALSE

\* async_unload_entry on the registry: the pair is popped if the platforms
\* unloaded
async_unload_entry(registered, unload_ok) ==
    IF unload_ok THEN FALSE ELSE registered

\* the host unloads the entry between two cycles; unloaded platforms remove
\* their entities, and with the last listener the coordinator stops its timer
UnloadEntry(unload_ok) ==
    /\ entry_state = "loaded"
    /\ pc = "Idle"
    /\ hass_data' = async_unload_entry(hass_data, unload_ok)
    /\ IF unload_ok
       THEN /\ entry_state' = "not_loaded"
            /\ views' = {}
            /\ player' = NoPlayer
            /\ scheduled' = FALSE
       ELSE /\ entry_state' = "failed_unload"
            /\ UNCHANGED <<views, player, scheduled>>
    /\ UNCHANGED <<monitored_devices, pc, data, last_update_success, last_exception, notified>>
    /\ UNCHANGED fvars
    /\ UNCHANGED flows
    /\ UNCHANGED rqvars
    /\ UNCHANGED svars

\* async_options_updated: the options flow has stored devices, and the entry
\* is reloaded: unloaded and, if that went well, set up again
OptionsUpdated(devices, unload_ok) ==
    /\ entry_state = "loaded"
    /\ pc = "Idle"
    /\ monitored_devices' = devices
    /\ hass_data' = async_unload_entry(hass_data, unload_ok)
    /\ IF unload_ok
       THEN /\ views' = {}
            /\ player' = NoPlayer
            /\ scheduled' = FALSE
            /\ entry_state' = "setup"
            /\ data' = None
            /\ last_update_success' = TRUE
            /\ last_exception' = ""
            /\ StartRefresh
       ELSE /\ entry_state' = "failed_unload"
            /\ UNCHANGED <<views, player, scheduled, pc, data, last_update_success,
                           last_exception, notified>>
            /\ UNCHANGED fvars
    /\ UNCHANGED flows
    /\ UNCHANGED rqvars
    /\ UNCHANGED svars

Init ==
    /\ RequestIdle
    /\ FetchIdle
    /\ entry_state = "not_loaded"
    /\ monitored_devices \in DeviceLists
    /\ hass_data = FALSE
    /\ pc = "Idle"
    /\ data = None
    /\ last_update_success = TRUE
    /\ last_exception = ""
    /\ scheduled = FALSE
    /\ views = {}
    /\ notified = [c \in ViewClasses |-> 0]
    /\ player = NoPlayer
    /\ flows = [f \in Flows |-> NoFlow]
    /\ SessionIdle

Next ==
    \/ SetupEntry
    \/ Tick
    \/ \E resps \in CycleResponses : FetchEnded(resps)
    \/ \E exc \in Escaping : FetchRaised(exc)
    \/ SetupFinish
    \/ SetupAbort
    \/ Notify
    \/ \E unload_ok \in BOOLEAN : UnloadEntry(unload_ok)
    \/ \E devices \in DeviceLists : \E unload_ok \in BOOLEAN :
          OptionsUpdated(devices, unload_ok)

Spec == Init /\ [][Next]_vars

----------------------------------------------------------------------------
(* SpecRequest: one call of _request *)


\* a get_* method calls _request("GET", endpoint)
RequestSend(endpoint) ==
    /\ rq_pc = "idle"
    /\ rq_pc' = "sent"
    /\ rq_endpoint' = endpoint
    /\ UNCHANGED <<rq_resp, rq_out>>
    /\ UNCHANGED fvars
    /\ UNCHANGED cvars
    /\ UNCHANGED svars

\* the server answers, or the transport fails, and _request ends
RequestEnd(resp) ==
    /\ rq_pc = "sent"
    /\ rq_pc' = "done"
    /\ rq_resp' = resp
    /\ rq_out' = _request(rq_endpoint, resp)
    /\ UNCHANGED rq_endpoint
    /\ UNCHANGED fvars
    /\ UNCHANGED cvars
    /\ UNCHANGED svars

\* test_connection is called and ends
TestConnection(resp) ==
    /\ rq_pc = "idle"
    /\ rq_pc' = "tested"
    /\ rq_endpoint' = API_ENDPOINT_SYSTEM_INFO_PUBLIC
    /\ rq_resp' = resp
    /\ rq_out' = test_connection(resp)
    /\ UNCHANGED fvars
    /\ UNCHANGED cvars
    /\ UNCHANGED svars

InitRequest == RequestIdle /\ FetchIdle /\ EntryIdle /\ SessionIdle

NextRequest ==
    \/ \E endpoint \in Endpoints : RequestSend(endpoint)
    \/ \E resp \in Responses : RequestEnd(resp)
    \/ \E resp \in Responses : TestConnection(resp)

SpecRequest == InitRequest /\ [][NextRequest]_vars

----------------------------------------------------------------------------
(* SpecFetch: one call of get_dashboard_overview *)

\* asyncio.gather is handed the nine coroutines: all are issued
FetchStart(srv) ==
    /\ f_pc = "idle"
    /\ f_pc' = "gathering"
    /\ server' = srv
    /\ results' = [i \in Positions |-> Pending]
    /\ UNCHANGED <<ret, warnings>>
    /\ UNCHANGED rqvars
    /\ UNCHANGED svars
    /\ UNCHANGED cvars

\* the task at position i ends, with a value or an exception, and the gather
\* keeps it at position i (return_exceptions=True)
SubFetchEnd(i, resp) ==
    /\ f_pc = "gathering"
    /\ results[i] = Pending
    /\ resp = server \/ Cardinality(OddOnes(results, server)) < MaxOdd
    /\ results' = [results EXCEPT ![i] = _request(EndpointAt(i), resp)]
    /\ f_pc' = IF ~return_exceptions /\ results'[i].kind = "raise" THEN "raised" ELSE f_pc
    /\ UNCHANGED <<server, ret, warnings>>
    /\ UNCHANGED rqvars
    /\ UNCHANGED svars
    /\ UNCHANGED cvars

\* the gather is over: degrade, log, return
FetchReturn ==
    /\ f_pc = "gathering"
    /\ \A i \in Positions : results[i] # Pending
    /\ f_pc' = "returned"
    /\ ret' = get_dashboard_overview(results).val
    /\ warnings' = LogErrors(results)
    /\ UNCHANGED <<server, results>>
    /\ UNCHANGED rqvars
    /\ UNCHANGED svars
    /\ UNCHANGED cvars

InitFetch == RequestIdle /\ FetchIdle /\ EntryIdle /\ SessionIdle

NextFetch ==
    \/ \E srv \in FetchResponses(1) : FetchStart(srv)
    \/ \E i \in Positions : \E resp \in FetchResponses(1) : SubFetchEnd(i, resp)
    \/ FetchReturn

SpecFetch == InitFetch /\ [][NextFetch]_vars

\* the end of a task in a fetch in which at most one call meets something
\* else than what the server does by default
SubFetchEndOne(i, resp) ==
    /\ SubFetchEnd(i, resp)
    /\ \A j \in OddOnes(results', server) : \A k \in OddOnes(results', server) : j = k

NextFetchLive ==
    \/ \E srv \in FetchResponses(1) : FetchStart(srv)
    \/ \E i \in Positions : \E resp \in FetchResponses(1) : SubFetchEndOne(i, resp)
    \/ FetchReturn

\* async_timeout.timeout(timeout) around every request: while tasks are
\* pending one of them ends, at the latest with asyncio.TimeoutError; the
\* return follows the last end without a further await
SpecFetchLive ==
    /\ InitFetch
    /\ [][NextFetchLive]_vars
    /\ WF_vars(\E i \in Positions : \E resp \in FetchResponses(1) : SubFetchEndOne(i, resp))
    /\ WF_vars(FetchReturn)

----------------------------------------------------------------------------
(* SpecSession: the views of one device read one session *)

\* a sensor asks _should_include_session
ShouldInclude ==
    /\ "include" \notin reading.read
    /\ reading' = [reading EXCEPT !.read = @ \cup { "include" },
                                  !.include = _should_include_session(device_filter, session)]
    /\ UNCHANGED <<session, device_filter>>
    /\ UNCHANGED rqvars
    /\ UNCHANGED fvars
    /\ UNCHANGED cvars

\* the media player looks for its session in _update_session_data
UpdateSessionData ==
    /\ "player" \notin reading.read
    /\ reading' = [reading EXCEPT !.read = @ \cup { "player" },
                                  !.player = MatchingFrom(<<session>>, device_filter, 1) # <<>>]
    /\ UNCHANGED <<session, device_filter>>
    /\ UNCHANGED rqvars
    /\ UNCHANGED fvars
    /\ UNCHANGED cvars

\* a device sensor looks for its session in device_info
DeviceInfo ==
    /\ "info" \notin reading.read
    /\ reading' = [reading EXCEPT !.read = @ \cup { "info" },
                                  !.info = DeviceInfoMatch(session, device_filter)]
    /\ UNCHANGED <<session, device_filter>>
    /\ UNCHANGED rqvars
    /\ UNCHANGED fvars
    /\ UNCHANGED cvars

\* the progress sensor is read
ReadProgress ==
    /\ "percent" \notin reading.read
    /\ reading' = [reading EXCEPT !.read = @ \cup { "percent" },
                                  !.percent = ProgressFrom(<<session>>, device_filter, 1)]
    /\ UNCHANGED <<session, device_filter>>
    /\ UNCHANGED rqvars
    /\ UNCHANGED fvars
    /\ UNCHANGED cvars

\* the media player's position and duration and the remaining-time sensor's
\* value and remaining_seconds are read
ReadSeconds ==
    /\ "seconds" \notin reading.read
    /\ LET session_data == MatchingFrom(<<session>>, device_filter, 1) IN
       reading' = [reading EXCEPT !.read = @ \cup { "seconds" },
                                  !.position = media_position(session_data),
                                  !.duration = media_duration(session_data),
                                  !.remaining = RemainingFrom(<<session>>, device_filter, 1),
                                  !.text = RemainingTextFrom(<<session>>, device_filter)]
    /\ UNCHANGED <<session, device_filter>>
    /\ UNCHANGED rqvars
    /\ UNCHANGED fvars
    /\ UNCHANGED cvars

InitSession ==
    /\ RequestIdle
    /\ FetchIdle
    /\ EntryIdle
    /\ session \in SessionsReported
    /\ device_filter \in Filters
    /\ reading = NoReading

NextSession ==
    \/ ShouldInclude
    \/ UpdateSessionData
    \/ DeviceInfo
    \/ ReadProgress
    \/ ReadSeconds

SpecSession == InitSession /\ [][NextSession]_vars

----------------------------------------------------------------------------
(* SpecOptions: the options flows add and remove monitored devices *)

OtherEntryVars ==
    <<entry_state, hass_data, pc, data, last_update_success, last_exception, scheduled,
      views, notified, player>>

\* the outcome of a step of flow f is stored
FlowStep(f, after) ==
    /\ flows' = [flows EXCEPT ![f] = after.flow]
    /\ monitored_devices' = after.monitored
    /\ UNCHANGED OtherEntryVars
    /\ UNCHANGED rqvars
    /\ UNCHANGED fvars
    /\ UNCHANGED svars

\* the options are opened: __init__, async_step_init
OpenFlow(f) ==
    /\ flows[f].step = "closed"
    /\ FlowStep(f, [flow |-> DeviceManagementForm(NoFlow), monitored |-> monitored_devices])

\* async_step_device_management with the action chosen in the menu
DeviceManagement(f, action, resp) ==
    /\ flows[f].step = "device_management"
    /\ FlowStep(f,
          CASE action = "add_device" ->
                  async_step_add_device(flows[f], monitored_devices, NoInput, resp)
            [] action = "remove_device" ->
                  async_step_remove_device(flows[f], monitored_devices, NoInput)
            [] OTHER -> [flow |-> NoFlow, monitored |-> monitored_devices])

\* the add_device form is submitted with one of the devices it offered
AddDevice(f, device_id, resp) ==
    /\ flows[f].step = "add_device"
    /\ device_id \in flows[f].options
    /\ FlowStep(f, async_step_add_device(flows[f], monitored_devices, device_id, resp))

\* the remove_device form is submitted with one of the devices it offered
RemoveDevice(f, device_id) ==
    /\ flows[f].step = "remove_device"
    /\ device_id \in flows[f].options
    /\ FlowStep(f, async_step_remove_device(flows[f], monitored_devices, device_id))

\* the stored list the flows start from
StartLists == { <<>>, OneDevice, <<PhoneDevice, OneDevice[1]>> }

InitOptions ==
    /\ RequestIdle
    /\ FetchIdle
    /\ SessionIdle
    /\ entry_state = "not_loaded"
    /\ monitored_devices \in StartLists
    /\ hass_data = FALSE
    /\ pc = "Idle"
    /\ data = None
    /\ last_update_success = TRUE
    /\ last_exception = ""
    /\ scheduled = FALSE
    /\ views = {}
    /\ notified = [c \in ViewClasses |-> 0]
    /\ player = NoPlayer
    /\ flows = [f \in Flows |-> NoFlow]

NextOptions ==
    \/ \E f \in Flows : OpenFlow(f)
    \/ \E f \in Flows : \E action \in { "add_device", "remove_device", "done" } :
          \E resp \in FetchResponses(1) : DeviceManagement(f, action, resp)
    \/ \E f \in Flows : \E device_id \in DeviceIds(DevicesReported) :
          \E resp \in FetchResponses(1) : AddDevice(f, device_id, resp)
    \/ \E f \in Flows : \E device_id \in DeviceIds(DevicesReported) : RemoveDevice(f, device_id)

SpecOptions == InitOptions /\ [][NextOptions]_vars

----------------------------------------------------------------------------
(* Properties of get_dashboard_overview (SpecFetch) *)

\* the nine section names
Sections ==
    { "system_info", "endpoint_info", "items_counts", "library_folders", "sessions",
      "users", "activity_log", "scheduled_tasks", "devices" }

\* the section that is to hold the outcome of the call at each position
SectionAt(i) ==
    CASE i = 0 -> "system_info"
      [] i = 1 -> "endpoint_info"
      [] i = 2 -> "items_counts"
      [] i = 3 -> "library_folders"
      [] i = 4 -> "sessions"
      [] i = 5 -> "users"
      [] i = 6 -> "activity_log"
      [] i = 7 -> "scheduled_tasks"
      [] i = 8 -> "devices"

\* the sub-fetches that ended with one of the four failures
FailedAt(res) == { i \in Positions : res[i].kind = "raise" }
\* the sub-fetches that ended with not found
NotFoundAt(res) == { i \in Positions : res[i].kind = "return" /\ res[i].val = None }
\* the empty values
IsEmptyFallback(val) == val \in { EmptyMapping, EmptySequence }

\* C1: every structure get_dashboard_overview returns has exactly the nine
\* named sections, whatever the nine sub-fetches met and however many failed.
C1_NineSections == f_pc = "returned" => DOMAIN ret = Sections

\* C1 witness: a structure returned after eight sub-fetches failed and the
\* ninth was not found
C1_Witness ==
    /\ f_pc = "returned"
    /\ Cardinality(FailedAt(results)) = 8
    /\ Cardinality(NotFoundAt(results)) = 1

\* C2: when exactly one sub-fetch fails, the fetch returns, the failed section
\* is empty and each of the other eight holds the value its own call fetched.
C2_OneFailure ==
    (f_pc # "idle" /\ Cardinality(FailedAt(results)) = 1 /\ (\A i \in Positions : results[i] # Pending))
        => /\ f_pc \in { "gathering", "returned" }
           /\ f_pc = "returned" =>
                \A i \in Positions :
                    IF i \in FailedAt(results)
                    THEN IsEmptyFallback(ret[SectionAt(i)])
                    ELSE /\ ret[SectionAt(i)] = results[i].val
                         /\ ret[SectionAt(i)] # None => ret[SectionAt(i)].ep = EndpointAt(i)

\* C2 witness: the sessions call timed out, the eight others fetched their
\* documents, and the structure was returned
C2_Witness ==
    /\ f_pc = "returned"
    /\ FailedAt(results) = { 4 }
    /\ results[4].exc = "EmbyTimeoutError"
    /\ \A i \in Positions \ { 4 } : ret[SectionAt(i)] = Doc(EndpointAt(i), 1)
    /\ ret.sessions = EmptySequence

\* C3 as claimed: no section of a returned structure is null and each has the
\* shape of the document its endpoint serves.
C3_NoNullSection ==
    f_pc = "returned" =>
        \A i \in Positions :
            /\ ret[SectionAt(i)] # None
            /\ ret[SectionAt(i)].shape = ShapeOf(EndpointAt(i))

\* C4: get_dashboard_overview never raises: a failed sub-fetch leaves the
\* others running, the structure is returned once all nine have ended, and
\* every failure has become the empty value of its section.
C4_NeverRaises ==
    /\ f_pc # "raised"
    /\ f_pc = "returned" =>
          \A i \in Positions :
              /\ results[i] # Pending
              /\ i \in FailedAt(results) => IsEmptyFallback(ret[SectionAt(i)])

\* C4 witness: a structure returned after all nine sub-fetches failed, not
\* all in the same way
C4_Witness ==
    /\ f_pc = "returned"
    /\ FailedAt(results) = Positions
    /\ Cardinality({ results[i].exc : i \in Positions }) > 1

----------------------------------------------------------------------------
(* Properties of the coordinator and the views (Spec) *)

\* C5: a cycle whose composite fetch raises leaves the snapshot as the cycle
\* before stored it and the success flag false until the cycle is over; a
\* cycle whose fetch returns replaces the snapshot and sets the flag.
C5_FailedCycleKeepsSnapshot ==
    [][ /\ (pc = "Fetching" /\ f_pc' = "raised") =>
                (data' = data /\ ~last_update_success')
        /\ pc = "Failed" => (data' = data /\ ~last_update_success')
        /\ (pc = "Fetching" /\ f_pc' = "returned") =>
                (data' = ret' /\ last_update_success') ]_vars

\* C5 witness: a periodic cycle has failed and the snapshot of an earlier
\* cycle is still the current one
C5_Witness ==
    /\ entry_state = "loaded"
    /\ pc = "Failed"
    /\ data # None
    /\ ~last_update_success

\* the steps of one cycle
CycleSteps ==
    { <<"Idle", "Fetching">>, <<"Fetching", "Success">>, <<"Fetching", "Failed">>,
      <<"Success", "Idle">>, <<"Failed", "Idle">> }

\* C6: a cycle goes Idle, Fetching, Success or Failed, Idle; when it is over,
\* every subscribed view has had its update callback exactly once; in Success
\* the snapshot is the structure the fetch returned and the flag is true.
C6_CycleStateMachine ==
    [][ /\ pc' # pc => <<pc, pc'>> \in CycleSteps
        /\ \A c \in ViewClasses : notified'[c] <= 1
        /\ (pc \in { "Success", "Failed" } /\ pc' = "Idle") =>
                \A c \in views : notified'[c] = 1
        /\ pc' = "Success" =>
                (f_pc' = "returned" /\ data' = ret' /\ last_update_success') ]_vars

\* C6 witness: a failed periodic cycle is over and the views, the media
\* player among them, have been notified
C6_Witness ==
    /\ entry_state = "loaded"
    /\ pc = "Idle"
    /\ ~last_update_success
    /\ "EmbyMediaPlayer" \in views
    /\ \A c \in views : notified[c] = 1

\* C7 as claimed: every view class reports available exactly when the success
\* flag is true and a snapshot is stored.
C7_AvailableIffFlagAndSnapshot ==
    entry_state = "loaded" =>
        \A c \in ViewClasses :
            available(c, last_update_success, data) <=> (last_update_success /\ data # None)

\* C7 amended: once the views exist, every view class but the server-online
\* binary sensor reports available exactly when the success flag is true and
\* a snapshot is stored; the server-online binary sensor always does.
C7_AvailableButOnline ==
    entry_state = "loaded" =>
        /\ \A c \in ViewClasses \ { "EmbyOnlineBinarySensor" } :
              available(c, last_update_success, data) <=> (last_update_success /\ data # None)
        /\ available("EmbyOnlineBinarySensor", last_update_success, data)

\* C7 witness: the views exist and the last cycle failed
C7_Witness ==
    /\ entry_state = "loaded"
    /\ views # {}
    /\ pc = "Idle"
    /\ ~last_update_success
    /\ ~available("EmbySensorBase", last_update_success, data)
    /\ ~available("EmbyMediaPlayer", last_update_success, data)

\* C8: whatever escapes the composite fetch, an API error or any other
\* exception, the cycle ends in Failed with the flag false and the exception
\* kept as last_exception, the views stay, and the next periodic refresh is
\* armed when the cycle is over.
C8_FailureIsState ==
    [][ /\ (pc = "Fetching" /\ f_pc' = "raised") =>
                /\ pc' = "Failed"
                /\ ~last_update_success'
                /\ last_exception' \in { "UpdateFailed" } \cup (Escaping \ { "EmbyAPIError" })
                /\ views' = views
        /\ (pc = "Failed" /\ entry_state = "loaded") =>
                (pc' = "Idle" /\ scheduled' /\ views' = views /\ ~last_update_success') ]_vars

\* C8 witness: a periodic cycle failed on an exception that is not an API
\* error, the cycle is over and the next one is armed
C8_Witness ==
    /\ entry_state = "loaded"
    /\ pc = "Idle"
    /\ last_exception = "RuntimeError"
    /\ ~last_update_success
    /\ scheduled

\* C9: no outcome of the nine sub-fetches makes a cycle fail: a cycle is
\* Failed only when the call itself broke, and once the fetch has returned
\* the cycle is a success, the flag is true and the snapshot is the returned
\* structure, with the empty value in every failed section.
C9_EndpointFailuresNeverFail ==
    /\ pc = "Failed" => (f_pc = "raised" /\ \A i \in Positions : results[i] = Pending)
    /\ f_pc = "returned" =>
          /\ pc \in { "Success", "Idle" }
          /\ last_update_success
          /\ data = ret
          /\ \A i \in FailedAt(results) : IsEmptyFallback(data[SectionAt(i)])

\* C9 witness: a periodic cycle in which all nine sub-fetches failed is a
\* success
C9_Witness ==
    /\ entry_state = "loaded"
    /\ pc = "Success"
    /\ FailedAt(results) = Positions
    /\ last_update_success
    /\ \A i \in Positions : IsEmptyFallback(data[SectionAt(i)])

\* C18 as claimed: once the entry is set up, reading a view never raises,
\* and where a section is its fallback the counts read 0 and the live fields
\* read as no playback: the now-playing sensor, the playback state, progress
\* 0, remaining "00:00", the media player idle.
C18_ReadsNeverRaise ==
    entry_state = "loaded" =>
        /\ EmbyMovieCountSensor_native_value(data).exc = ""
        /\ EmbyOnlineBinarySensor_is_on(data).exc = ""
        /\ data.items_counts = EmptyMapping =>
              EmbyMovieCountSensor_native_value(data).val = 0
        /\ data.system_info = EmptyMapping => ~EmbyOnlineBinarySensor_is_on(data).val
        /\ \A k \in 1..Len(monitored_devices) :
              LET device_id == monitored_devices[k].device_id IN
              /\ EmbyNowPlayingSensor_native_value(data, device_id).exc = ""
              /\ EmbyPlaybackStateSensor_native_value(data, device_id).exc = ""
              /\ EmbyProgressPercentSensor_native_value(data, device_id).exc = ""
              /\ EmbyPlaybackRemainingSensor_native_value(data, device_id).exc = ""
              /\ data.sessions = EmptySequence =>
                    /\ EmbyNowPlayingSensor_native_value(data, device_id).val = NO_PLAYBACK
                    /\ EmbyPlaybackStateSensor_native_value(data, device_id).val = PLAYBACK_IDLE
                    /\ EmbyProgressPercentSensor_native_value(data, device_id).val = 0
                    /\ EmbyPlaybackRemainingSensor_native_value(data, device_id).val = "00:00"
                    /\ pc = "Idle" => state(player) = "idle"

----------------------------------------------------------------------------
(* Properties of _request (SpecRequest) *)

\* the outcomes the failure taxonomy allows for what the request met
Claimed(resp) ==
    IF resp.ev = "response"
    THEN CASE resp.status = 401 -> { "EmbyAuthError" }
           [] resp.status = 404 -> { "not found" }
           [] resp.status \notin { 401, 404 } /\ resp.status >= 400 -> { "EmbyAPIError" }
           [] OTHER -> { "value" }
    ELSE CASE resp.exc = "asyncio.TimeoutError" -> { "EmbyTimeoutError" }
           [] resp.exc = "aiohttp.ClientConnectorError" -> { "EmbyConnectionError" }
           [] resp.exc = "aiohttp.ServerTimeoutError" ->
                 { "EmbyTimeoutError", "EmbyConnectionError" }
           [] OTHER -> { "EmbyAPIError" }

\* C10 as claimed: a request ends in the one outcome its response decides:
\* 401 raises the authentication error, 404 returns None, a timeout raises the
\* timeout error, a transport failure raises the connection error, any other
\* unexpected error raises the unknown error with its cause, and otherwise
\* the body is returned; no failure is reported as one of another kind.
C10_OneOutcomePerResponse ==
    rq_pc = "done" =>
        /\ OutcomeClass(rq_out) \in Claimed(rq_resp)
        /\ (rq_out.kind = "raise" /\ rq_out.exc = "EmbyAPIError") =>
              rq_out.cause = rq_resp.exc

\* C11: test_connection never raises; it returns true exactly when the
\* public system-info request is answered, with a status that is no error,
\* by a document that has the ServerName field, and false for a 401, a 404,
\* any other error status, a timeout, a transport error or any other
\* exception.
C11_TestConnection ==
    rq_pc = "tested" =>
        /\ rq_out.kind = "return"
        /\ rq_out.val \in { PyBool(TRUE), PyBool(FALSE) }
        /\ rq_out.val = PyBool(TRUE) <=>
              /\ rq_resp.ev = "response"
              /\ rq_resp.status = 200
              /\ rq_resp.ver >= 1

\* C11 witness: the probe met a 401 and reported false
C11_Witness ==
    /\ rq_pc = "tested"
    /\ rq_resp.ev = "response"
    /\ rq_resp.status = 401
    /\ rq_out = Return(PyBool(FALSE))

----------------------------------------------------------------------------
(* Properties of the views of one device (SpecSession) *)

\* C12 as claimed: _should_include_session is true exactly when the filter is
\* absent, or is "all", or equals the session's DeviceId, or equals the string
\* of the session's InternalDeviceId.
C12_IncludeIffAbsentAllOrId ==
    "include" \in reading.read =>
        (reading.include <=>
            \/ device_filter = Absent
            \/ device_filter = "all"
            \/ (session.DeviceId # Absent /\ session.DeviceId = device_filter)
            \/ (session.InternalDeviceId # NoId
                    /\ Str(session.InternalDeviceId) = device_filter))

\* C12 amended: _should_include_session is true exactly when the filter is
\* absent, or empty, or "all", or equals the session's DeviceId, or equals the
\* string of the session's InternalDeviceId; with the filter absent, empty or
\* "all" it is true for every session, those without identifiers included.
C12_IncludeIffFalsyAllOrId ==
    "include" \in reading.read =>
        /\ reading.include <=>
              \/ device_filter \in { Absent, "", "all" }
              \/ (session.DeviceId # Absent /\ session.DeviceId = device_filter)
              \/ (session.InternalDeviceId # NoId
                      /\ Str(session.InternalDeviceId) = device_filter)
        /\ device_filter \in { Absent, "", "all" } => reading.include

\* C12 witness: a session without identifiers is included under the filter
\* "all"
C12_Witness ==
    /\ "include" \in reading.read
    /\ device_filter = "all"
    /\ session.DeviceId = Absent
    /\ session.InternalDeviceId = NoId
    /\ reading.include

\* C13 as claimed: for every session and every filter value, the media player
\* and device_info decide the match as _should_include_session does.
C13_SameRuleEverywhere ==
    { "include", "player", "info" } \subseteq reading.read =>
        /\ reading.player = reading.include
        /\ reading.info = reading.include

\* C13 amended: for every session and every device id (a value that is not
\* absent, empty or "all") the media player, device_info and
\* _should_include_session decide alike; the media player and device_info
\* decide alike for every value; for a value that is absent, empty or "all"
\* the sensors include every session while the media player and device_info
\* match only a session one of whose identifiers equals the value.
C13_SameRuleForDeviceIds ==
    { "include", "player", "info" } \subseteq reading.read =>
        /\ reading.player = reading.info
        /\ device_filter \notin { Absent, "", "all" } =>
              reading.player = reading.include
        /\ device_filter \in { Absent, "", "all" } =>
              /\ reading.include
              /\ reading.player <=>
                    \/ session.DeviceId = device_filter
                    \/ (device_filter = "" /\ session.InternalDeviceId = NoId)

\* C13 witness: a session matched through its InternalDeviceId by all three
C13_Witness ==
    /\ { "include", "player", "info" } \subseteq reading.read
    /\ device_filter = "7"
    /\ session.DeviceId = "tv-1"
    /\ reading.include /\ reading.player /\ reading.info

----------------------------------------------------------------------------
(* Further properties of get_dashboard_overview (SpecFetch) *)

\* the sections the data model of the claim has as mappings
ClaimedMappings == { "system_info", "endpoint_info", "items_counts" }

\* C14 as claimed: after a failed sub-fetch, system_info, endpoint_info and
\* items_counts are the empty mapping and each of the other six sections is
\* the empty sequence.
C14_FallbackThreeMappings ==
    f_pc = "returned" =>
        \A i \in FailedAt(results) :
            ret[SectionAt(i)] =
                IF SectionAt(i) \in ClaimedMappings THEN EmptyMapping ELSE EmptySequence

\* C14 amended: after a failed sub-fetch, system_info, endpoint_info,
\* items_counts, library_folders, activity_log and devices are the empty
\* mapping, and sessions, users and scheduled_tasks are the empty sequence.
C14_FallbackSixMappings ==
    f_pc = "returned" =>
        \A i \in FailedAt(results) :
            ret[SectionAt(i)] =
                IF SectionAt(i) \in { "sessions", "users", "scheduled_tasks" }
                THEN EmptySequence ELSE EmptyMapping

\* C14 witness: all nine sub-fetches failed and the structure has six empty
\* mappings and three empty sequences
C14_Witness ==
    /\ f_pc = "returned"
    /\ FailedAt(results) = Positions
    /\ Cardinality({ c \in Sections : ret[c] = EmptyMapping }) = 6
    /\ Cardinality({ c \in Sections : ret[c] = EmptySequence }) = 3

\* C15: when get_dashboard_overview has returned, its warnings name the
\* positions of the failed sub-fetches, each once and no other: as many
\* warnings as failures, and none for a sub-fetch that returned.
C15_EachFailureLoggedOnce ==
    f_pc = "returned" =>
        /\ Len(warnings) = Cardinality(FailedAt(results))
        /\ { warnings[k] : k \in 1..Len(warnings) } = FailedAt(results)
        /\ \A k \in 1..Len(warnings) : results[warnings[k]].kind = "raise"

\* C15 witness: eight sub-fetches failed, the one of the sessions was not
\* found, and eight warnings were logged for the eight that failed
C15_Witness ==
    /\ f_pc = "returned"
    /\ FailedAt(results) = Positions \ { 4 }
    /\ NotFoundAt(results) = { 4 }
    /\ warnings = <<0, 1, 2, 3, 5, 6, 7, 8>>

\* C16: the nine calls are all pending before any of them ends, a call that
\* ends changes the entry of its own position only and never one that has
\* ended, and the structure returned holds in each section the outcome of
\* the call of that section, whatever the order in which the calls ended.
C16_KeyedByCallNotArrival ==
    [][ /\ f_pc = "idle" /\ f_pc' = "gathering" =>
              \A i \in Positions : results'[i] = Pending
        /\ f_pc = "gathering" =>
              /\ Cardinality({ i \in Positions : results'[i] # results[i] }) <= 1
              /\ \A i \in Positions : results[i] # Pending => results'[i] = results[i]
        /\ f_pc' = "returned" =>
              \A i \in Positions :
                  /\ results'[i].kind = "return" => ret'[SectionAt(i)] = results'[i].val
                  /\ results'[i].kind = "raise" => IsEmptyFallback(ret'[SectionAt(i)])
                  /\ ret'[SectionAt(i)].ep \in { "", EndpointAt(i) } ]_vars

\* C16 witness: the first call failed, the eight others returned their
\* documents, and each section holds the outcome of its own call
C16_Witness ==
    /\ f_pc = "returned"
    /\ results[0].kind = "raise"
    /\ ret.system_info = EmptyMapping
    /\ ret.devices = Doc(API_ENDPOINT_DEVICES, 1)
    /\ \A i \in 1..7 : ret[SectionAt(i)] = Doc(EndpointAt(i), 1)

\* q is the floor of num / den, for den > 0
IsFloorOf(q, num, den) == q * den <= num /\ num < (q + 1) * den

\* C19 as claimed: for a playing session of the device, the progress
\* percentage is the floor of PositionTicks / RunTimeTicks * 100 when
\* RunTimeTicks > 0, and 0 when RunTimeTicks is 0 or missing (the tick counts
\* of the model are multiples of 5,000,000).
C19_ProgressIsFloor ==
    ("percent" \in reading.read /\ session.NowPlayingItem
        /\ _should_include_session(device_filter, session)) =>
        IF session.RunTimeTicks > 0
        THEN IsFloorOf(reading.percent,
                       100 * (GetTicks(session.PositionTicks, 0) \div 5000000),
                       session.RunTimeTicks \div 5000000)
        ELSE reading.percent = 0

PlayingWithin(s, filter) ==
    /\ _should_include_session(filter, s)
    /\ s.NowPlayingItem
    /\ s.RunTimeTicks > 0
    /\ 0 <= s.PositionTicks
    /\ s.PositionTicks <= s.RunTimeTicks

----------------------------------------------------------------------------
(* Properties of the media player and of the setup (Spec) *)

\* the first session of snapshot d that matches device_id, as <<s>>, or <<>>
FirstMatching(d, device_id) ==
    IF d = None THEN <<>>
    ELSE LET Matches(s) == s.DeviceId = device_id
                             \/ (s.InternalDeviceId # NoId
                                   /\ Str(s.InternalDeviceId) = device_id)
             matching == SelectSeq(SessionsIn(d.sessions), Matches)
         IN  IF matching = <<>> THEN <<>> ELSE <<matching[1]>>

\* C21 as claimed: after its construction and after each notification the
\* media player holds the first session of the current snapshot that matches
\* its device id, or none when none matches or no snapshot is stored, and a
\* notification leaves the snapshot as it was.
C21_HoldsCurrentSession ==
    [][ /\ (entry_state' = "loaded" /\ pc' = "Idle" /\ "EmbyMediaPlayer" \in views') =>
              player'._session_data = FirstMatching(data', player'.device_id)
        /\ (pc \in { "Success", "Failed" } /\ pc' = "Idle") => data' = data ]_vars

\* the cached identity of the media player
Identity(p) == <<p._cached_user, p._cached_device, p._cached_client>>

\* C22: while the entry is loaded the media player changes only at a
\* notification; across a
\* notification of a cycle that failed, or whose snapshot has no session
\* matching the device, its cached user, device and client names and its
\* name stay as they were; with a matching session each cached field becomes
\* the session's value, or stays when the session does not have the field.
C22_CachedIdentityStable ==
    [][ /\ (entry_state = "loaded" /\ entry_state' = "loaded" /\ pc' # "Idle") =>
              player' = player
        /\ (entry_state = "loaded" /\ pc \in { "Success", "Failed" } /\ pc' = "Idle"
                /\ "EmbyMediaPlayer" \in views) =>
              LET m == FirstMatching(data, player.device_id) IN
              /\ (m = <<>> \/ pc = "Failed") =>
                    (Identity(player') = Identity(player) /\ name(player') = name(player))
              /\ m # <<>> =>
                    /\ player'._cached_user =
                          (IF m[1].UserName # Absent THEN m[1].UserName
                           ELSE player._cached_user)
                    /\ player'._cached_device =
                          (IF m[1].DeviceName # Absent THEN m[1].DeviceName
                           ELSE player._cached_device)
                    /\ player'._cached_client =
                          (IF m[1].Client # Absent THEN m[1].Client
                           ELSE player._cached_client) ]_vars

\* C22 witness: the sessions of the current snapshot are the fallback, and the
\* media player still shows the names of the session it had
C22_Witness ==
    /\ entry_state = "loaded"
    /\ pc = "Idle"
    /\ data.sessions = EmptySequence
    /\ player._session_data = <<>>
    /\ Identity(player) = <<"alice", "Living Room", "Infuse">>
    /\ name(player) = "Emby alice - Living Room"
    /\ state(player) = "idle"

\* the playback-state sensor and the media player of a device say the same
Agree(r, p) ==
    /\ r.exc = ""
    /\ r.val = PLAYBACK_IDLE <=> state(p) = "idle"
    /\ r.val = PLAYBACK_PAUSED <=> state(p) = "paused"
    /\ r.val = PLAYBACK_PLAYING <=> state(p) = "playing"

\* the first session of the snapshot that matches the device has nothing
\* playing, and a later one that matches has
LaterSessionPlays(d, device_id) ==
    LET m == MatchingFrom(SessionsIn(d.sessions), device_id, 1) IN
    /\ m # <<>>
    /\ ~m[1].NowPlayingItem
    /\ \E k \in 2..Len(m) : m[k].NowPlayingItem

C27_OnlineIffServerName ==
    (entry_state = "loaded" /\ "EmbyOnlineBinarySensor" \in views) =>
        /\ available("EmbyOnlineBinarySensor", last_update_success, data)
        /\ EmbyOnlineBinarySensor_is_on(data) = Read(HasServerName(data.system_info))

\* C24: whenever an entity exists the coordinator has a snapshot and the
\* pair is registered; entities appear only in the step that ends a setup
\* whose first refresh succeeded; the step that follows a first refresh that
\* failed gives the setup up with nothing registered and no entity.
C24_ViewsOnlyAfterFirstRefresh ==
    /\ [](views # {} => (data # None /\ hass_data))
    /\ [][ /\ (views = {} /\ views' # {}) =>
                  (entry_state = "setup" /\ pc = "Success" /\ last_update_success
                      /\ data # None /\ data' = data)
           /\ (entry_state = "setup" /\ pc = "Failed" /\ pc' # pc) =>
                  (entry_state' = "setup_retry" /\ ~hass_data' /\ views' = {}) ]_vars

\* C24 witness: the setup was given up after a first refresh that failed
C24_Witness ==
    /\ entry_state = "setup_retry"
    /\ pc = "Idle"
    /\ ~last_update_success
    /\ data = None
    /\ ~hass_data
    /\ views = {}

\* C29: the pair is registered exactly while the entry is loaded or has
\* failed to unload; it is registered only by the end of a setup whose first
\* refresh succeeded and removed only by an unload of the loaded entry that
\* went well; a change of the monitored devices comes with a reload: the
\* entities are removed and a setup starts, or the unload fails and the
\* entities stay as they were.
C29_RegisteredWhileLoaded ==
    /\ [](hass_data <=> entry_state \in { "loaded", "failed_unload" })
    /\ [][ /\ (~hass_data /\ hass_data') =>
                  (entry_state = "setup" /\ pc = "Success" /\ entry_state' = "loaded")
           /\ (hass_data /\ ~hass_data') =>
                  (entry_state = "loaded" /\ entry_state' \in { "not_loaded", "setup" }
                      /\ views' = {})
           /\ (entry_state' = "failed_unload") => (hass_data' /\ views' = views)
           /\ (monitored_devices' # monitored_devices) =>
                  \/ (entry_state' = "setup" /\ pc' = "Fetching" /\ views' = {}
                         /\ ~hass_data')
                  \/ (entry_state' = "failed_unload" /\ views' = views /\ player' = player)
         ]_vars

\* C29 witness: the entry was loaded and has been unloaded; the snapshot of
\* its coordinator is left, the pair is not
C29_Witness ==
    /\ entry_state = "not_loaded"
    /\ data # None
    /\ ~hass_data
    /\ views = {}

----------------------------------------------------------------------------
(* Properties of the options flow (SpecOptions) *)

\* no two entries of a list of devices share a device_id
NoDuplicates(devices) ==
    \A i \in 1..Len(devices) : \A j \in 1..Len(devices) :
        devices[i].device_id = devices[j].device_id => i = j

\* devices without the entries of device_id, the others in order
Without(devices, device_id) ==
    LET Others(d) == d.device_id # device_id IN SelectSeq(devices, Others)

\* C28 as claimed: the stored list never has two entries of one device_id; a
\* submitted add_device form whose device is already monitored leaves the list
\* as it is and reports device_already_monitored; a submitted remove_device
\* form leaves the list without the entries of its device, the others in
\* order.
C28_NoDuplicateDevices ==
    /\ [] NoDuplicates(monitored_devices)
    /\ [][ \A f \in Flows :
            /\ (flows[f].step = "add_device" /\ flows'[f] # flows[f]
                    /\ flows'[f].user_input \in DeviceIds(monitored_devices)) =>
                  /\ monitored_devices' = monitored_devices
                  /\ flows'[f].errors = "device_already_monitored"
            /\ (flows[f].step = "remove_device" /\ flows'[f] # flows[f]) =>
                  monitored_devices' = Without(monitored_devices, flows'[f].user_input)
         ]_vars

----------------------------------------------------------------------------
(* Termination of the composite fetch (SpecFetchLive) *)

\* C23: a composite fetch that has started returns; it leaves the gather only
\* by returning, and only when each of the nine calls has ended (nothing
\* aborts it while a call is pending); a call that has ended stays ended.
C23_FetchTerminates ==
    /\ (f_pc = "gathering") ~> (f_pc = "returned")
    /\ [][ /\ (f_pc = "gathering" /\ f_pc' # "gathering") =>
                  (f_pc' = "returned" /\ \A i \in Positions : results[i] # Pending)
           /\ \A i \in Positions :
                  (f_pc = "gathering" /\ results[i] # Pending) => results'[i] = results[i] ]_vars

\* C23 witness: the fetch has returned although the sessions call ran into
\* its timeout
C23_Witness ==
    /\ f_pc = "returned"
    /\ results[4] = Raise("EmbyTimeoutError", ERROR_TIMEOUT, "asyncio.TimeoutError")
    /\ \A i \in Positions \ { 4 } : results[i].kind = "return"
    /\ ret.sessions = EmptySequence

====
